---- MODULE Spec2Model ----
(***************************************************************************)
(* Model of rescale_weights_by_ratio_pattern (src/conservative.py).        *)
(*                                                                         *)
(* df1 is the dense weight series (one row per day), df2 the sparse list   *)
(* of signed ratio events.  The function copies df1, sorts df2 by date in  *)
(* DESCENDING order and walks it with the index i; every iteration of the  *)
(* while loop is one step of the model.  Weights are exact rationals       *)
(* (num/den), so "times 4/3" is never rounded.                             *)
(***************************************************************************)
EXTENDS Integers, Sequences, FiniteSets, TLC

VARIABLES pc, df1, df2, result_df, df2_sorted, used_dates, i, intervals

\* RealizedVolatilityCalculator (src/.py, src/a.py): the constructor's
\* arguments (the object's fields), the return series, the T0 of the call,
\* the seed variances, the EWMA variances, the volatility table, the raised
\* exception, and the position in the call.
VARIABLES vpc, calc, returns, T0_date, T0_idx, initial_var, variance, vol_df,
          error

\* calculate_with_leverage of both variants: the arguments, the realized_vol
\* column it works on, and the columns each variant adds.
VARIABLES lpc, lev_args, realized_vol, leveraged_weight, leverage_factor,
          applied_leverage

\* The return-construction functions of RealizedVolatilityCalculator: the
\* history rows passed in, the lag, the function that ran and the series it
\* returned.
VARIABLES rpc, history, ret_lag, ret_mode, returns_series

rescaleVars == <<pc, df1, df2, result_df, df2_sorted, used_dates, i, intervals>>

volVars == <<vpc, calc, returns, T0_date, T0_idx, initial_var, variance, vol_df,
             error>>

levVars == <<lpc, lev_args, realized_vol, leveraged_weight, leverage_factor,
             applied_leverage>>

retVars == <<rpc, history, ret_lag, ret_mode, returns_series>>

vars == <<rescaleVars, volVars, levVars, retVars>>

(***************************************************************************)
(* Bounds of the model.                                                    *)
(***************************************************************************)
NumDays == 4
MaxEvents == 4
E2EDays == 10
E2EMaxEvents == 2
LiveDays == 3
LiveMaxEvents == 4
MaxVolRows == 4
MaxLag == 2
MaxReturns == 3
MaxSeedWindow == 3
MaxReturnDays == 2
MaxHistoryDays == 3
MaxHistoryRows == 3

(***************************************************************************)
(* Numbers.  The floats of the calculator are modelled exactly: a finite   *)
(* value is a rational num/den in lowest terms with den > 0; the float     *)
(* results that are no number are NaN and Inf.                             *)
(***************************************************************************)
Abs(x) == IF x < 0 THEN 0 - x ELSE x

RECURSIVE Gcd(_, _)
Gcd(a, b) == IF b = 0 THEN a ELSE Gcd(b, a % b)

Rat(n, d) ==
  LET g == Gcd(Abs(n), Abs(d))
      sgn == IF d < 0 THEN 0 - 1 ELSE 1
  IN [num |-> (sgn * n) \div g, den |-> (sgn * d) \div g]

Zero == Rat(0, 1)
One == Rat(1, 1)

\* the arithmetic reduces by the common divisor of the denominators before
\* it multiplies, so that the intermediate integers stay small
RAdd(x, y) ==
  LET g == Gcd(x.den, y.den)
  IN Rat(x.num * (y.den \div g) + y.num * (x.den \div g), (x.den \div g) * y.den)
RSub(x, y) == RAdd(x, [num |-> 0 - y.num, den |-> y.den])
RMul(x, y) ==
  LET g == Gcd(Abs(x.num), y.den)
      h == Gcd(Abs(y.num), x.den)
  IN Rat((x.num \div g) * (y.num \div h), (x.den \div h) * (y.den \div g))
RDiv(x, y) == RMul(x, Rat(y.den, y.num))
RLess(x, y) ==
  LET g == Gcd(x.den, y.den)
  IN x.num * (y.den \div g) < y.num * (x.den \div g)
RLeq(x, y) == ~RLess(y, x)
RMin(x, y) == IF RLeq(x, y) THEN x ELSE y
RMax(x, y) == IF RLeq(x, y) THEN y ELSE x

RECURSIVE RPow(_, _)
RPow(x, k) == IF k = 0 THEN One ELSE RMul(x, RPow(x, k - 1))

\* a float: a finite number, +inf or NaN
Num(r) == [kind |-> "num", val |-> r]
Inf == [kind |-> "inf", val |-> Zero]
NaN == [kind |-> "nan", val |-> Zero]
IsNaN(x) == x.kind = "nan"

(***************************************************************************)
(* Inputs.                                                                 *)
(***************************************************************************)
Ratios == {0 - 1, 0, 1}

Events(days) == [date : 1..days, ratio : Ratios]

\* the chronological lists of exactly n events (rows of equal date allowed)
RECURSIVE ChronologicalLists(_, _)
ChronologicalLists(days, n) ==
  IF n = 0 THEN {<<>>}
  ELSE UNION { { Append(s, e) :
                   e \in { x \in Events(days) :
                             Len(s) = 0 \/ s[Len(s)].date <= x.date } } :
               s \in ChronologicalLists(days, n - 1) }

\* df2 as the callers build it: rows in chronological order, at most maxLen.
EventLists(days, maxLen) ==
  UNION { ChronologicalLists(days, n) : n \in 0..maxLen }

\* df1: one row per day, in date order.
DailyRows(days, w) == [d \in 1..days |-> [date |-> d, weight |-> w[d]]]

WeightSeries(days) == { [d \in 1..days |-> 10], [d \in 1..days |-> 10 + d] }

(***************************************************************************)
(* Pure pieces of the function.                                            *)
(***************************************************************************)
None == 0 - 1

\* result_df = df1.copy(); result_df['rescaled_weight'] = result_df['weight']
CopyWithRescaled(df) ==
  [k \in DOMAIN df |->
     [date |-> df[k].date, weight |-> df[k].weight,
      rescaled_weight |-> [num |-> df[k].weight, den |-> 1]]]

\* the orderings p of the rows of df (row k of the result is row p[k] of df)
Orderings(df) == Permutations(DOMAIN df)

SortAscending(df) ==
  { [k \in DOMAIN df |-> df[p[k]]] :
      p \in { q \in Orderings(df) :
                \A k \in 1..(Len(df) - 1) : df[q[k]].date <= df[q[k + 1]].date } }

\* df2.sort_values('date', ascending=False).reset_index(drop=True): every
\* ordering of the rows by descending date (rows of equal date in any order).
SortValuesDescending(df) ==
  { [k \in DOMAIN df |-> df[p[k]]] :
      p \in { q \in Orderings(df) :
                \A k \in 1..(Len(df) - 1) : df[q[k]].date >= df[q[k + 1]].date } }

\* row j of df2_sorted, j counted from 0 as in the code
Row(sorted, j) == sorted[j + 1]

SkipOnlyZero(ratio) == ratio = 0

\* "if current_ratio <= 0: i += 1; continue"
SkipAsStart(ratio) == ratio <= 0

IsNegativeOrZero(ratio) == ratio <= 0

\* "if next_ratio < 0"
IsPartner(ratio) == ratio < 0

RECURSIVE FindFrom(_, _, _)
FindFrom(sorted, used, j) ==
  IF j >= Len(sorted) THEN None
  ELSE IF Row(sorted, j).date \in used THEN FindFrom(sorted, used, j + 1)
  ELSE IF IsPartner(Row(sorted, j).ratio) THEN j
  ELSE FindFrom(sorted, used, j + 1)

RECURSIVE FindFromIgnoringUsed(_, _, _)
FindFromIgnoringUsed(sorted, used, j) ==
  IF j >= Len(sorted) THEN None
  ELSE IF IsPartner(Row(sorted, j).ratio) THEN j
  ELSE FindFromIgnoringUsed(sorted, used, j + 1)

FindNextIgnoringUsed(sorted, used, idx) == FindFromIgnoringUsed(sorted, used, idx + 1)

RECURSIVE FindLastFrom(_, _, _)
FindLastFrom(sorted, used, j) ==
  IF j >= Len(sorted) THEN None
  ELSE IF FindLastFrom(sorted, used, j + 1) # None
       THEN FindLastFrom(sorted, used, j + 1)
  ELSE IF Row(sorted, j).date \notin used /\ IsPartner(Row(sorted, j).ratio) THEN j
  ELSE None

FindFarthest(sorted, used, idx) == FindLastFrom(sorted, used, idx + 1)

\* "for j in range(i + 1, len(df2_sorted))": the first later row of the scan
\* whose date is unused and whose ratio is negative, or None.
FindNext(sorted, used, idx) == FindFrom(sorted, used, idx + 1)

MaskLeftOpenRightClosed(d, earlier_date, later_date) ==
  d > earlier_date /\ d <= later_date

MaskClosed(d, earlier_date, later_date) ==
  d >= earlier_date /\ d <= later_date

\* mask = (result_df['date'] >= earlier_date) & (result_df['date'] < later_date)
Mask(d, earlier_date, later_date) ==
  d >= earlier_date /\ d < later_date

TimesThreeHalves(x) == [num |-> x.num * 3, den |-> x.den * 2]

TimesOne(x) == x

\* "*= 4/3"
TimesFourThirds(x) == [num |-> x.num * 4, den |-> x.den * 3]

ApplyRescalingToWeight(df, earlier_date, later_date) ==
  [k \in DOMAIN df |->
     IF Mask(df[k].date, earlier_date, later_date)
     THEN [df[k] EXCEPT !.weight = (@ * 4) \div 3,
                        !.rescaled_weight = TimesFourThirds(@)]
     ELSE df[k]]

\* result_df.loc[mask, 'rescaled_weight'] *= 4/3
ApplyRescaling(df, earlier_date, later_date) ==
  [k \in DOMAIN df |->
     IF Mask(df[k].date, earlier_date, later_date)
     THEN [df[k] EXCEPT !.rescaled_weight = TimesFourThirds(@)]
     ELSE df[k]]

\* The printed report of one applied pair (the four print lines).
Report(cur, nxt) ==
  [earlier |-> nxt.date, later |-> cur.date,
   positive_ratio |-> cur.ratio, negative_ratio |-> nxt.ratio]

(***************************************************************************)
(* The state machine.                                                      *)
(***************************************************************************)
\* no rescale call is part of the run
RescaleIdle ==
  /\ pc = "idle"
  /\ df1 = <<>>
  /\ df2 = <<>>
  /\ result_df = <<>>
  /\ df2_sorted = <<>>
  /\ used_dates = {}
  /\ i = 0
  /\ intervals = <<>>

\* no calculator is part of the run
VolIdle ==
  /\ vpc = "idle"
  /\ calc = <<>>
  /\ returns = <<>>
  /\ T0_date = 0
  /\ T0_idx = 0
  /\ initial_var = <<>>
  /\ variance = <<>>
  /\ vol_df = <<>>
  /\ error = "None"

\* no leverage call is part of the run
LevIdle ==
  /\ lpc = "idle"
  /\ lev_args = <<>>
  /\ realized_vol = <<>>
  /\ leveraged_weight = <<>>
  /\ leverage_factor = <<>>
  /\ applied_leverage = <<>>

\* no return-construction call is part of the run
RetIdle ==
  /\ rpc = "idle"
  /\ history = <<>>
  /\ ret_lag = 0
  /\ ret_mode = "None"
  /\ returns_series = <<>>

InitWith(rows, events) ==
  /\ VolIdle
  /\ LevIdle
  /\ RetIdle
  /\ pc = "start"
  /\ df1 = rows
  /\ df2 = events
  /\ result_df = <<>>
  /\ df2_sorted = <<>>
  /\ used_dates = {}
  /\ i = 0
  /\ intervals = <<>>

Init ==
  \E w \in WeightSeries(NumDays), ev \in EventLists(NumDays, MaxEvents) :
    InitWith(DailyRows(NumDays, w), ev)

\* the end-to-end scenario: longer series of constant weight, few events
InitE2E ==
  \E ev \in EventLists(E2EDays, E2EMaxEvents) :
    InitWith(DailyRows(E2EDays, [d \in 1..E2EDays |-> 10]), ev)

\* the termination runs: short series of constant weight
InitLive ==
  \E ev \in EventLists(LiveDays, LiveMaxEvents) :
    InitWith(DailyRows(LiveDays, [d \in 1..LiveDays |-> 10]), ev)

\* create_test_data: twenty daily rows, five events on fixed dates
SampleDays == 20
SampleDates == <<3, 7, 12, 16, 18>>

\* the ratios of create_test_data by sign: -0.5, 0.3, -0.2, 0.7, -0.1
SampleRatios == <<0 - 1, 1, 0 - 1, 1, 0 - 1>>

\* the events of create_test_data, and the same dates under every other
\* choice of ratios
SampleEventLists ==
  { [k \in DOMAIN SampleDates |-> [date |-> SampleDates[k], ratio |-> r[k]]] :
      r \in [DOMAIN SampleDates -> Ratios] }

InitSample ==
  \E w \in WeightSeries(SampleDays), ev \in SampleEventLists :
    InitWith(DailyRows(SampleDays, w), ev)

\* lines 24-33: copy, initialise the new column, sort, empty set, i = 0
Begin ==
  /\ pc = "start"
  /\ result_df' = CopyWithRescaled(df1)
  /\ df2_sorted' \in SortValuesDescending(df2)
  /\ used_dates' = {}
  /\ i' = 0
  /\ pc' = "scan"
  /\ UNCHANGED <<df1, df2, intervals, volVars, levVars, retVars>>

InLoop == pc = "scan" /\ i < Len(df2_sorted)

SkipUsedWithoutAdvance ==
  /\ InLoop
  /\ Row(df2_sorted, i).date \in used_dates
  /\ UNCHANGED vars

\* lines 38-41
SkipUsed ==
  /\ InLoop
  /\ Row(df2_sorted, i).date \in used_dates
  /\ i' = i + 1
  /\ UNCHANGED <<pc, df1, df2, result_df, df2_sorted, used_dates, intervals,
                 volVars, levVars, retVars>>

\* lines 43-46
SkipNonPositive ==
  /\ InLoop
  /\ Row(df2_sorted, i).date \notin used_dates
  /\ SkipAsStart(Row(df2_sorted, i).ratio)
  /\ i' = i + 1
  /\ UNCHANGED <<pc, df1, df2, result_df, df2_sorted, used_dates, intervals,
                 volVars, levVars, retVars>>

\* lines 48-87 when the search succeeds
ApplyPair ==
  /\ InLoop
  /\ Row(df2_sorted, i).date \notin used_dates
  /\ ~SkipAsStart(Row(df2_sorted, i).ratio)
  /\ LET next_idx == FindNext(df2_sorted, used_dates, i) IN
       /\ next_idx # None
       /\ LET later_date == Row(df2_sorted, i).date
              earlier_date == Row(df2_sorted, next_idx).date
          IN /\ used_dates' = used_dates \cup {later_date, earlier_date}
             /\ result_df' = ApplyRescaling(result_df, earlier_date, later_date)
             /\ intervals' = Append(intervals,
                                Report(Row(df2_sorted, i), Row(df2_sorted, next_idx)))
  /\ i' = i + 1
  /\ UNCHANGED <<pc, df1, df2, df2_sorted, volVars, levVars, retVars>>

\* lines 48-64 and 87 when the search finds nothing
NoPair ==
  /\ InLoop
  /\ Row(df2_sorted, i).date \notin used_dates
  /\ ~SkipAsStart(Row(df2_sorted, i).ratio)
  /\ FindNext(df2_sorted, used_dates, i) = None
  /\ i' = i + 1
  /\ UNCHANGED <<pc, df1, df2, result_df, df2_sorted, used_dates, intervals,
                 volVars, levVars, retVars>>

\* line 34 false, line 89
Return ==
  /\ pc = "scan"
  /\ i >= Len(df2_sorted)
  /\ pc' = "done"
  /\ UNCHANGED <<df1, df2, result_df, df2_sorted, used_dates, i, intervals,
                 volVars, levVars, retVars>>

Next ==
  \/ Begin
  \/ SkipUsed
  \/ SkipNonPositive
  \/ ApplyPair
  \/ NoPair
  \/ Return

Spec == Init /\ [][Next]_vars

SpecSample == InitSample /\ [][Next]_vars

\* the interpreter keeps executing the loop: a step that can be taken is taken
SpecLive == InitLive /\ [][Next]_vars /\ WF_vars(Next)

SpecE2E == InitE2E /\ [][Next]_vars

(***************************************************************************)
(* calculate_with_leverage, the part after calculate_realized_volatility:  *)
(* src/.py (leveraged_weight) and src/a.py (leverage_factor,               *)
(* applied_leverage).  realized_vol is the column the volatility           *)
(* calculation returns: finite and never negative.                         *)
(***************************************************************************)
VolValues == { Zero, Rat(1, 10), Rat(1, 5), Rat(2, 5) }

TargetValues == { Rat(11, 200), Rat(3, 10) }

MaxLeverageValues == { One, Rat(3, 2) }

VolSeries(maxLen) ==
  UNION { [1..n -> {Num(v) : v \in VolValues}] : n \in 0..maxLen }

\* target_volatility / x, elementwise float division of a positive number
FDivide(target, x) ==
  IF x.kind = "nan" THEN NaN
  ELSE IF x.kind = "inf" THEN Num(Zero)
  ELSE IF x.val = Zero THEN Inf
  ELSE Num(RDiv(target, x.val))

ClipLower(x, bound) ==
  IF x.kind = "nan" THEN NaN
  ELSE IF x.kind = "inf" THEN Inf
  ELSE Num(RMax(x.val, bound))

\* Series.clip(upper=bound): NaN stays NaN
ClipUpper(x, bound) ==
  IF x.kind = "nan" THEN NaN
  ELSE IF x.kind = "inf" THEN Num(bound)
  ELSE Num(RMin(x.val, bound))

ShiftBackward(series, periods) ==
  [t \in DOMAIN series |->
     IF t + periods <= Len(series) THEN series[t + periods] ELSE NaN]

\* Series.shift(periods): row t takes the value of row t - periods, the first
\* rows become NaN
Shift(series, periods) ==
  [t \in DOMAIN series |->
     IF t - periods >= 1 THEN series[t - periods] ELSE NaN]

\* Series.fillna(value)
FillNa(series, value) ==
  [t \in DOMAIN series |-> IF IsNaN(series[t]) THEN Num(value) ELSE series[t]]

LeveragedWeightUnlagged(vol, target_volatility, max_leverage, lag_days) ==
  LET divided == [t \in DOMAIN vol |-> FDivide(target_volatility, vol[t])]
      clipped == [t \in DOMAIN vol |-> ClipUpper(divided[t], max_leverage)]
  IN FillNa(clipped, max_leverage)

\* src/.py lines 574-584: shift the volatility, divide, clip, fill
LeveragedWeight(vol, target_volatility, max_leverage, lag_days) ==
  LET lagged_realized_vol == Shift(vol, lag_days)
      divided == [t \in DOMAIN vol |-> FDivide(target_volatility, lagged_realized_vol[t])]
      clipped == [t \in DOMAIN vol |-> ClipUpper(divided[t], max_leverage)]
  IN FillNa(clipped, max_leverage)

\* src/a.py lines 509-511: divide, clip
LeverageFactor(vol, target_volatility, max_leverage) ==
  [t \in DOMAIN vol |->
     ClipUpper(FDivide(target_volatility, vol[t]), max_leverage)]

\* src/a.py lines 513-515: shift the factor, fill with 1.0
AppliedLeverage(factor, lag_days) == FillNa(Shift(factor, lag_days), One)

InitLev ==
  /\ RescaleIdle
  /\ VolIdle
  /\ RetIdle
  /\ lpc = "call"
  /\ \E vol \in VolSeries(MaxVolRows), t \in TargetValues,
        m \in MaxLeverageValues, lag \in 0..MaxLag :
       /\ realized_vol = vol
       /\ lev_args = [target_volatility |-> t, max_leverage |-> m, lag_days |-> lag]
  /\ leveraged_weight = <<>>
  /\ leverage_factor = <<>>
  /\ applied_leverage = <<>>

\* calculate_with_leverage of src/.py on the volatility table
WithLeveragePy ==
  /\ lpc \in {"call", "a_done"}
  /\ leveraged_weight' = LeveragedWeight(realized_vol, lev_args.target_volatility,
                                         lev_args.max_leverage, lev_args.lag_days)
  /\ lpc' = IF lpc = "call" THEN "py_done" ELSE "done"
  /\ UNCHANGED <<lev_args, realized_vol, leverage_factor, applied_leverage,
                 rescaleVars, volVars, retVars>>

\* calculate_with_leverage of src/a.py on the same volatility table
WithLeverageA ==
  /\ lpc \in {"call", "py_done"}
  /\ leverage_factor' = LeverageFactor(realized_vol, lev_args.target_volatility,
                                       lev_args.max_leverage)
  /\ applied_leverage' = AppliedLeverage(leverage_factor', lev_args.lag_days)
  /\ lpc' = IF lpc = "call" THEN "a_done" ELSE "done"
  /\ UNCHANGED <<lev_args, realized_vol, leveraged_weight, rescaleVars, volVars, retVars>>

NextLev ==
  \/ WithLeveragePy
  \/ WithLeverageA

SpecLev == InitLev /\ [][NextLev]_vars

\* the variant of src/.py has run
PyDone == lpc \in {"py_done", "done"}

\* the variant of src/a.py has run
ADone == lpc \in {"a_done", "done"}

(***************************************************************************)
(* RealizedVolatilityCalculator (src/.py): construction and                *)
(* calculate_realized_volatility on a return series.  A volatility is the  *)
(* square root of a rational and is kept as that rational (Sqrt); two      *)
(* square roots compare as their radicands do.                             *)
(***************************************************************************)
AnnualizationFactor == 252

LambdaValues == { Rat(0 - 1, 2), Zero, Rat(1, 2), Rat(3, 4), One, Rat(3, 2) }

ConstructorArgs ==
  [lambda_s : LambdaValues, lambda_l : LambdaValues,
   n : 0..MaxReturnDays, N : 0..MaxSeedWindow,
   annualization_factor : {AnnualizationFactor},
   use_log_returns : BOOLEAN, use_individual_log_returns : BOOLEAN]

ReturnValues == { NaN, Num(Zero), Num(Rat(0 - 1, 5)) }

\* the return series: dates are day numbers, the k-th return (from 1) is
\* that of day k + 1, so that day 1 and the days past the end are absent
ReturnSeriesOf(values) ==
  [k \in DOMAIN values |-> [date |-> k + 1, ret |-> values[k]]]

ReturnLists(maxLen) ==
  UNION { { ReturnSeriesOf(v) : v \in [1..n -> ReturnValues] } : n \in 0..maxLen }

\* T0_date: 0 stands for None
T0Dates(maxLen) == 0..(maxLen + 2)

ValidateClosedInterval(args) ==
  IF ~(RLeq(Zero, args.lambda_s) /\ RLeq(args.lambda_s, One)) THEN "ValueError"
  ELSE IF ~(RLeq(Zero, args.lambda_l) /\ RLeq(args.lambda_l, One)) THEN "ValueError"
  ELSE IF args.n < 1 THEN "ValueError"
  ELSE IF args.N < 1 THEN "ValueError"
  ELSE IF args.use_individual_log_returns /\ ~args.use_log_returns THEN "ValueError"
  ELSE "None"

\* __init__, lines 55-67: the exception the constructor raises, or "None"
Validate(args) ==
  IF ~(RLess(Zero, args.lambda_s) /\ RLess(args.lambda_s, One)) THEN "ValueError"
  ELSE IF ~(RLess(Zero, args.lambda_l) /\ RLess(args.lambda_l, One)) THEN "ValueError"
  ELSE IF args.n < 1 THEN "ValueError"
  ELSE IF args.N < 1 THEN "ValueError"
  ELSE IF args.use_individual_log_returns /\ ~args.use_log_returns THEN "ValueError"
  ELSE "None"

Minimum(a, b) == IF a <= b THEN a ELSE b
Maximum(a, b) == IF a >= b THEN a ELSE b

\* series.iloc[start:stop] for start >= 0 (positions counted from 0)
Iloc(series, start, stop) == SubSeq(series, start + 1, Minimum(stop, Len(series)))

\* series.iloc[start:], a negative start counting from the end
IlocFrom(series, start) ==
  IF start >= 0 THEN SubSeq(series, start + 1, Len(series))
  ELSE SubSeq(series, Maximum(Len(series) + start, 0) + 1, Len(series))

\* series.dropna()
RECURSIVE DropNa(_)
DropNa(series) ==
  IF series = <<>> THEN <<>>
  ELSE IF IsNaN(Head(series).ret) THEN DropNa(Tail(series))
  ELSE <<Head(series)>> \o DropNa(Tail(series))

RECURSIVE RSum(_)
RSum(xs) == IF xs = <<>> THEN Zero ELSE RAdd(Head(xs), RSum(Tail(xs)))

Square(x) == RMul(x, x)

\* returns.index.get_loc(T0_date): the position of the date, None if absent
GetLoc(series, d) ==
  IF \E k \in DOMAIN series : series[k].date = d
  THEN (CHOOSE k \in DOMAIN series : series[k].date = d) - 1
  ELSE None

DefaultT0Unclamped(series, N) == N

DefaultT0(series, N) == Minimum(N, Len(series) - 1)

T0OrDefault(series, d, N) ==
  IF d # 0 /\ GetLoc(series, d) # None THEN GetLoc(series, d)
  ELSE DefaultT0(series, N)

\* lines 506-510: the start position, None when get_loc raises KeyError
DetermineT0(series, d, N) ==
  IF d # 0 THEN GetLoc(series, d) ELSE DefaultT0(series, N)

HistoricalReturnsBeforeT0(series, idx, N) ==
  DropNa(Iloc(series, Maximum(0, idx - N), idx))

\* lines 404-405: the window of at most N returns ending at T0, NaN dropped
HistoricalReturns(series, idx, N) ==
  DropNa(Iloc(series, Maximum(0, idx - N + 1), idx + 1))

\* lines 416-417: alpha of the i-th of k returns (i counted from 0)
Alpha(k, j, lambda_val) ==
  RMul(RSub(One, lambda_val), RPow(lambda_val, k - 1 - j))

RawWeights(k, lambda_val) == [j \in 1..k |-> Alpha(k, j - 1, lambda_val)]

\* lines 409-424: the weights of the k historical returns, normalised
SeedWeights(k, lambda_val) ==
  LET weights == [j \in 1..k |-> Alpha(k, j - 1, lambda_val)]
      weighting_factor == RSum(weights)
  IN IF RLess(Zero, weighting_factor)
     THEN [j \in 1..k |-> RDiv(weights[j], weighting_factor)]
     ELSE weights

\* lines 426-427: sum of weight * squared return
WeightedVariance(weights, hist) ==
  RSum([j \in DOMAIN hist |-> RMul(weights[j], Square(hist[j].ret.val))])

\* calculate_initial_variance
InitialVariance(series, idx, N, lambda_val) ==
  LET historical_returns == HistoricalReturns(series, idx, N)
  IN IF Len(historical_returns) = 0 THEN Zero
     ELSE WeightedVariance(SeedWeights(Len(historical_returns), lambda_val),
                           historical_returns)

EwmaStepWithoutCarry(prev, r, lambda_val) ==
  IF IsNaN(r) THEN RMul(lambda_val, prev)
  ELSE RAdd(RMul(lambda_val, prev), RMul(RSub(One, lambda_val), Square(r.val)))

EwmaStepSubtracting(prev, r, lambda_val) ==
  IF IsNaN(r) THEN prev
  ELSE RSub(RMul(lambda_val, prev), RMul(RSub(One, lambda_val), Square(r.val)))

\* lines 460-464: one step of the recursion
EwmaStep(prev, r, lambda_val) ==
  IF IsNaN(r) THEN prev
  ELSE RAdd(RMul(lambda_val, prev), RMul(RSub(One, lambda_val), Square(r.val)))

\* calculate_ewma_variance: the variance at position k (from 1) of the series
RECURSIVE EwmaAt(_, _, _, _)
EwmaAt(series, initial_variance, lambda_val, k) ==
  IF k = 1 THEN initial_variance
  ELSE EwmaStep(EwmaAt(series, initial_variance, lambda_val, k - 1),
                series[k].ret, lambda_val)

EwmaVariance(series, initial_variance, lambda_val) ==
  [k \in DOMAIN series |-> EwmaAt(series, initial_variance, lambda_val, k)]

\* the square root of a rational >= 0
Sqrt(x) == [sqrt_of |-> x]
SqrtLeq(a, b) == RLeq(a.sqrt_of, b.sqrt_of)

\* lines 525-527: np.sqrt((annualization_factor / n) * variance)
Annualize(var, annualization_factor, n) ==
  Sqrt(RMul(Rat(annualization_factor, n), var))

RowMin(a, b) == IF SqrtLeq(a, b) THEN a ELSE b

\* line 536: max over the two columns of a row
RowMax(a, b) == IF SqrtLeq(a, b) THEN b ELSE a

\* lines 529-536: the returned table
VolTable(series, variance_s, variance_l, annualization_factor, n) ==
  [k \in DOMAIN series |->
     LET vs == Annualize(variance_s[k], annualization_factor, n)
         vl == Annualize(variance_l[k], annualization_factor, n)
     IN [date |-> series[k].date, short_term_vol |-> vs, long_term_vol |-> vl,
         realized_vol |-> RowMax(vs, vl)]]

InitVol ==
  /\ RescaleIdle
  /\ LevIdle
  /\ RetIdle
  /\ vpc = "new"
  /\ calc \in ConstructorArgs
  /\ returns = <<>>
  /\ T0_date = 0
  /\ T0_idx = 0
  /\ initial_var = <<>>
  /\ variance = <<>>
  /\ vol_df = <<>>
  /\ error = "None"

\* RealizedVolatilityCalculator(...): the fields are set, then validated
Construct ==
  /\ vpc = "new"
  /\ error' = Validate(calc)
  /\ vpc' = IF Validate(calc) = "None" THEN "constructed" ELSE "raised"
  /\ UNCHANGED <<calc, returns, T0_date, T0_idx, initial_var, variance, vol_df,
                 rescaleVars, levVars, retVars>>

\* calculate_realized_volatility(df, T0_date), from the return series on
CalculateRealizedVolatility ==
  /\ vpc = "constructed"
  /\ \E series \in ReturnLists(MaxReturns), d \in T0Dates(MaxReturns) :
       LET idx == DetermineT0(series, d, calc.N) IN
         /\ returns' = series
         /\ T0_date' = d
         /\ IF d # 0 /\ idx = None
            THEN /\ error' = "KeyError"
                 /\ vpc' = "raised"
                 /\ UNCHANGED <<T0_idx, initial_var, variance, vol_df>>
            ELSE LET hist == HistoricalReturns(series, idx, calc.N)
                     initial_var_s == InitialVariance(series, idx, calc.N, calc.lambda_s)
                     initial_var_l == InitialVariance(series, idx, calc.N, calc.lambda_l)
                     returns_from_T0 == IlocFrom(series, idx)
                     variance_s == EwmaVariance(returns_from_T0, initial_var_s, calc.lambda_s)
                     variance_l == EwmaVariance(returns_from_T0, initial_var_l, calc.lambda_l)
                 IN /\ T0_idx' = idx
                    /\ initial_var' =
                         [s |-> initial_var_s, l |-> initial_var_l,
                          historical_returns |-> hist,
                          weights_s |-> SeedWeights(Len(hist), calc.lambda_s),
                          weights_l |-> SeedWeights(Len(hist), calc.lambda_l)]
                    /\ variance' = [s |-> variance_s, l |-> variance_l]
                    /\ vol_df' = VolTable(returns_from_T0, variance_s, variance_l,
                                          calc.annualization_factor, calc.n)
                    /\ error' = "None"
                    /\ vpc' = "done"
  /\ UNCHANGED <<calc, rescaleVars, levVars, retVars>>

NextVol ==
  \/ Construct
  \/ CalculateRealizedVolatility

SpecVol == InitVol /\ [][NextVol]_vars

(***************************************************************************)
(* The return-construction functions of RealizedVolatilityCalculator       *)
(* (src/.py): calculate_portfolio_value with calculate_log_returns, and    *)
(* the three weight-based functions.  A logarithm is kept as its argument. *)
(***************************************************************************)
Cash == "USD.CASH"

\* the order of the symbols as strings
SymbolRank(symbol) ==
  CASE symbol = "AAA" -> 1
    [] symbol = "BBB" -> 2
    [] symbol = "USD.CASH" -> 3

\* what a row of the history can hold besides its date: a long position, the
\* same at another price, a zero weight, a short position, a zero price, a
\* second asset, and cash
RowKinds ==
  { [symbol |-> "AAA", weight |-> 1, price_per_share |-> 1, number_of_shares |-> 1, fee_price |-> 10],
    [symbol |-> "AAA", weight |-> 1, price_per_share |-> 2, number_of_shares |-> 1, fee_price |-> 20],
    [symbol |-> "AAA", weight |-> 0, price_per_share |-> 1, number_of_shares |-> 0, fee_price |-> 10],
    [symbol |-> "AAA", weight |-> 0 - 1, price_per_share |-> 1, number_of_shares |-> 1, fee_price |-> 10],
    [symbol |-> "AAA", weight |-> 1, price_per_share |-> 0, number_of_shares |-> 1, fee_price |-> 0],
    [symbol |-> "BBB", weight |-> 1, price_per_share |-> 2, number_of_shares |-> 2, fee_price |-> 20],
    [symbol |-> "USD.CASH", weight |-> 1, price_per_share |-> 1, number_of_shares |-> 1, fee_price |-> 10] }

HistoryRows(days) ==
  { [date |-> d, symbol |-> k.symbol, weight |-> k.weight,
     price_per_share |-> k.price_per_share,
     number_of_shares |-> k.number_of_shares, fee_price |-> k.fee_price] :
      d \in 1..days, k \in RowKinds }

\* the sort key of df.sort_values(['date', 'symbol'])
DateSymbolKey(r) == r.date * 4 + SymbolRank(r.symbol)

\* the lists of exactly n rows in (date, symbol) order, one row per pair
RECURSIVE SortedHistories(_, _)
SortedHistories(days, n) ==
  IF n = 0 THEN {<<>>}
  ELSE UNION { { Append(h, r) :
                   r \in { x \in HistoryRows(days) :
                             Len(h) = 0 \/ DateSymbolKey(h[Len(h)]) < DateSymbolKey(x) } } :
               h \in SortedHistories(days, n - 1) }

Reverse(rows) == [k \in DOMAIN rows |-> rows[Len(rows) + 1 - k]]

\* the history as passed in: rows in date order or in the opposite order
Histories(days, maxLen) ==
  UNION { { h, Reverse(h) } : h \in UNION { SortedHistories(days, n) : n \in 0..maxLen } }

\* df.sort_values(['date', 'symbol'])
SortValuesDateSymbol(df) ==
  LET p == CHOOSE q \in Orderings(df) :
             \A k \in 1..(Len(df) - 1) :
               DateSymbolKey(df[q[k]]) < DateSymbolKey(df[q[k + 1]])
  IN [k \in DOMAIN df |-> df[p[k]]]

RECURSIVE SortedSeq(_)
SortedSeq(S) ==
  IF S = {} THEN <<>>
  ELSE LET m == CHOOSE x \in S : \A y \in S : x <= y
       IN <<m>> \o SortedSeq(S \ {m})

RECURSIVE FirstSeen(_)
FirstSeen(dates) ==
  IF dates = <<>> THEN <<>>
  ELSE LET rest == FirstSeen(SubSeq(dates, 1, Len(dates) - 1))
           d == dates[Len(dates)]
       IN IF \E k \in DOMAIN rest : rest[k] = d THEN rest ELSE Append(rest, d)

\* the dates in the order of their first row, not sorted
UniqueDatesUnsorted(df) == FirstSeen([k \in DOMAIN df |-> df[k].date])

\* sorted(df['date'].unique()), and the index of a groupby('date') result
\* after sort_index()
UniqueDates(df) == SortedSeq({ df[k].date : k \in DOMAIN df })

RowsOn(df, d) == SelectSeq(df, LAMBDA r : r.date = d)

\* the rows of one date, 'USD.CASH' excluded
NonCash(df, d) == SelectSeq(df, LAMBDA r : r.date = d /\ r.symbol # Cash)

RECURSIVE SumWeights(_)
SumWeights(rows) ==
  IF rows = <<>> THEN 0 ELSE Head(rows).weight + SumWeights(Tail(rows))

NormalizableNonZero(prev_data) ==
  Len(prev_data) > 0 /\ SumWeights(prev_data) # 0

\* "if len(prev_data) > 0" and "if weight_sum > 0": otherwise the date is
\* passed over
Normalizable(prev_data) ==
  Len(prev_data) > 0 /\ SumWeights(prev_data) > 0

NormalizedWeight(row, prev_data) == Rat(row.weight, SumWeights(prev_data))

HasSymbol(data, symbol) == \E k \in DOMAIN data : data[k].symbol = symbol

\* curr_data[curr_data['symbol'] == symbol]['price_per_share'].iloc[0]
CurrPrice(data, symbol) ==
  data[CHOOSE k \in DOMAIN data :
         /\ data[k].symbol = symbol
         /\ \A j \in 1..(k - 1) : data[j].symbol # symbol].price_per_share

\* calculate_weighted_portfolio_returns, one pass of the loop: the records
\* it appends (none or one)
WeightedReturnAt(df_sorted, unique_dates, t, lag) ==
  LET current_date == unique_dates[t + 1]
      previous_date == unique_dates[t - lag + 1]
      prev_data == NonCash(df_sorted, previous_date)
      curr_data == NonCash(df_sorted, current_date)
      asset_term(prev_row) ==
        IF HasSymbol(curr_data, prev_row.symbol) /\ prev_row.price_per_share > 0
        THEN RMul(NormalizedWeight(prev_row, prev_data),
                  Rat(CurrPrice(curr_data, prev_row.symbol) - prev_row.price_per_share,
                      prev_row.price_per_share))
        ELSE Zero
  IN IF Normalizable(prev_data)
     THEN << [date |-> current_date,
              ret |-> Num(RSum([k \in DOMAIN prev_data |-> asset_term(prev_data[k])]))] >>
     ELSE <<>>

\* calculate_normalized_price_returns, one pass of the loop
NormalizedPriceReturnAt(df_sorted, unique_dates, t, lag) ==
  LET current_date == unique_dates[t + 1]
      previous_date == unique_dates[t - lag + 1]
      prev_data == NonCash(df_sorted, previous_date)
      curr_data == NonCash(df_sorted, current_date)
      prev_term(prev_row) ==
        RMul(NormalizedWeight(prev_row, prev_data), Rat(prev_row.price_per_share, 1))
      curr_term(prev_row) ==
        IF HasSymbol(curr_data, prev_row.symbol)
        THEN RMul(NormalizedWeight(prev_row, prev_data),
                  Rat(CurrPrice(curr_data, prev_row.symbol), 1))
        ELSE Zero
      prev_portfolio_value == RSum([k \in DOMAIN prev_data |-> prev_term(prev_data[k])])
      curr_portfolio_value == RSum([k \in DOMAIN prev_data |-> curr_term(prev_data[k])])
  IN IF Normalizable(prev_data) /\ RLess(Zero, prev_portfolio_value)
     THEN << [date |-> current_date,
              ret |-> Num(RDiv(RSub(curr_portfolio_value, prev_portfolio_value),
                               prev_portfolio_value))] >>
     ELSE <<>>

\* a sum of weight * log(argument) terms
WeightedLogs(terms) == [kind |-> "weighted_logs", terms |-> terms]

\* calculate_weighted_individual_log_returns, one pass of the loop; an asset
\* that is passed over adds nothing, written as a term of weight 0
IndividualLogReturnAt(df_sorted, unique_dates, t, lag) ==
  LET current_date == unique_dates[t + 1]
      previous_date == unique_dates[t - lag + 1]
      prev_data == NonCash(df_sorted, previous_date)
      curr_data == NonCash(df_sorted, current_date)
      log_term(prev_row) ==
        IF HasSymbol(curr_data, prev_row.symbol) /\ prev_row.price_per_share > 0
        THEN [weight |-> NormalizedWeight(prev_row, prev_data),
              log_of |-> Rat(CurrPrice(curr_data, prev_row.symbol),
                             prev_row.price_per_share)]
        ELSE [weight |-> Zero, log_of |-> One]
  IN IF Normalizable(prev_data)
     THEN << [date |-> current_date,
              ret |-> WeightedLogs([k \in DOMAIN prev_data |-> log_term(prev_data[k])])] >>
     ELSE <<>>

\* the pass of the loop of the function that builds the given kind of return
ReturnAt(mode, df_sorted, unique_dates, t, lag) ==
  CASE mode = "weighted" -> WeightedReturnAt(df_sorted, unique_dates, t, lag)
    [] mode = "normalized_price" -> NormalizedPriceReturnAt(df_sorted, unique_dates, t, lag)
    [] mode = "individual_log" -> IndividualLogReturnAt(df_sorted, unique_dates, t, lag)

\* "for i in range(lag, len(unique_dates))": the records appended by the
\* passes t, t + 1, ...
RECURSIVE LoopFrom(_, _, _, _, _)
LoopFrom(mode, df_sorted, unique_dates, t, lag) ==
  IF t >= Len(unique_dates) THEN <<>>
  ELSE ReturnAt(mode, df_sorted, unique_dates, t, lag)
         \o LoopFrom(mode, df_sorted, unique_dates, t + 1, lag)

\* the body shared by the three weight-based functions: sort, unique dates,
\* loop; the Series built from the records is indexed by date and sorted
WeightBasedReturns(mode, df, lag) ==
  LET df_sorted == SortValuesDateSymbol(df)
      unique_dates == UniqueDates(df_sorted)
  IN LoopFrom(mode, df_sorted, unique_dates, lag, lag)

RECURSIVE SumPositionValues(_)
SumPositionValues(rows) ==
  IF rows = <<>> THEN 0
  ELSE Head(rows).price_per_share * Head(rows).number_of_shares
         + SumPositionValues(Tail(rows))

\* calculate_portfolio_value: fee_price of the first row of each date when
\* the column is there, the sum of the position values otherwise
PortfolioValue(df, has_fee_price) ==
  LET dates == UniqueDates(df)
  IN [k \in DOMAIN dates |->
        [date |-> dates[k],
         value |-> IF has_fee_price THEN RowsOn(df, dates[k])[1].fee_price
                   ELSE SumPositionValues(RowsOn(df, dates[k]))]]

\* a / b on floats of non-negative value
Quotient(a, b) ==
  IF b = 0 THEN (IF a = 0 THEN NaN ELSE Inf) ELSE Num(Rat(a, b))

\* np.log
Log(x) == IF IsNaN(x) THEN NaN ELSE [kind |-> "log", of |-> x]

\* calculate_log_returns: np.log(prices / prices.shift(lag))
LogReturns(prices, lag) ==
  [k \in DOMAIN prices |->
     [date |-> prices[k].date,
      ret |-> IF k - lag >= 1
              THEN Log(Quotient(prices[k].value, prices[k - lag].value))
              ELSE NaN]]

InitRet ==
  /\ RescaleIdle
  /\ VolIdle
  /\ LevIdle
  /\ rpc = "call"
  /\ history \in Histories(MaxHistoryDays, MaxHistoryRows)
  /\ ret_lag \in 1..MaxReturnDays
  /\ ret_mode = "None"
  /\ returns_series = <<>>

\* calculate_log_returns(calculate_portfolio_value(df), lag=self.n)
PortfolioLogReturns ==
  /\ rpc = "call"
  /\ \E has_fee_price \in BOOLEAN :
       /\ ret_mode' = IF has_fee_price THEN "fee_price" ELSE "position_value"
       /\ returns_series' = LogReturns(PortfolioValue(history, has_fee_price), ret_lag)
  /\ rpc' = "done"
  /\ UNCHANGED <<history, ret_lag, rescaleVars, volVars, levVars>>

\* calculate_weighted_portfolio_returns(df, lag=self.n)
WeightedPortfolioReturns ==
  /\ rpc = "call"
  /\ ret_mode' = "weighted"
  /\ returns_series' = WeightBasedReturns("weighted", history, ret_lag)
  /\ rpc' = "done"
  /\ UNCHANGED <<history, ret_lag, rescaleVars, volVars, levVars>>

\* calculate_normalized_price_returns(df, lag=self.n)
NormalizedPriceReturns ==
  /\ rpc = "call"
  /\ ret_mode' = "normalized_price"
  /\ returns_series' = WeightBasedReturns("normalized_price", history, ret_lag)
  /\ rpc' = "done"
  /\ UNCHANGED <<history, ret_lag, rescaleVars, volVars, levVars>>

\* calculate_weighted_individual_log_returns(df, lag=self.n)
WeightedIndividualLogReturns ==
  /\ rpc = "call"
  /\ ret_mode' = "individual_log"
  /\ returns_series' = WeightBasedReturns("individual_log", history, ret_lag)
  /\ rpc' = "done"
  /\ UNCHANGED <<history, ret_lag, rescaleVars, volVars, levVars>>

NextRet ==
  \/ PortfolioLogReturns
  \/ WeightedPortfolioReturns
  \/ NormalizedPriceReturns
  \/ WeightedIndividualLogReturns

SpecRet == InitRet /\ [][NextRet]_vars

(***************************************************************************)
(* Vocabulary of the properties.                                           *)
(***************************************************************************)
Range(s) == {s[k] : k \in DOMAIN s}

\* rescaled_weight = weight
IsOriginal(r) == r.rescaled_weight.num = r.weight * r.rescaled_weight.den

\* rescaled_weight = weight * 4/3
IsFourThirds(r) == 3 * r.rescaled_weight.num = 4 * r.weight * r.rescaled_weight.den

\* the reported interval [earlier, later) holds the date d
Covers(iv, d) == iv.earlier <= d /\ d < iv.later

Coverage(d) == Cardinality({k \in DOMAIN intervals : Covers(intervals[k], d)})

DistinctDates(ev) == \A a, b \in DOMAIN ev : a # b => ev[a].date # ev[b].date

Unused(j) == Row(df2_sorted, j).date \notin used_dates

\* df2 is a negative event followed, on a later date, by a positive one
NegativeThenPositive ==
  /\ Len(df2) = 2
  /\ df2[1].ratio < 0 /\ df2[2].ratio > 0
  /\ df2[1].date < df2[2].date

\* df2 is a positive event followed, on a later date, by a negative one
PositiveThenNegative ==
  /\ Len(df2) = 2
  /\ df2[1].ratio > 0 /\ df2[2].ratio < 0
  /\ df2[1].date < df2[2].date

(***************************************************************************)
(* C1.  Negative event on d1, positive event on the later d2.              *)
(***************************************************************************)
\* C1 as stated: the span is (d1, d2]: the row of d1 keeps its weight, the
\* row of d2 and every row strictly between them are multiplied by 4/3.
C1_SpanLeftOpenRightClosed ==
  (pc = "done" /\ NegativeThenPositive) =>
    \A r \in Range(result_df) :
      /\ r.date = df2[1].date => IsOriginal(r)
      /\ (df2[1].date < r.date /\ r.date <= df2[2].date) => IsFourThirds(r)

\* C1 amended: the span is [d1, d2): the row of d1 and every row strictly
\* between d1 and d2 are multiplied by 4/3 exactly once, the row of d2 and
\* every row outside keep their weight, and the one interval reported is
\* [d1, d2).
C1_SpanLeftClosedRightOpen ==
  (pc = "done" /\ NegativeThenPositive) =>
    /\ \A r \in Range(result_df) :
         IF df2[1].date <= r.date /\ r.date < df2[2].date
         THEN IsFourThirds(r) ELSE IsOriginal(r)
    /\ Len(intervals) = 1
    /\ intervals[1].earlier = df2[1].date
    /\ intervals[1].later = df2[2].date

C1_Witness ==
  /\ pc = "done"
  /\ NegativeThenPositive
  /\ df2[1].date + 1 < df2[2].date
  /\ Len(intervals) = 1

(***************************************************************************)
(* C2.  Positive event on d1, negative event on the later d2.              *)
(***************************************************************************)
\* C2 as stated: the span is [d1, d2): the row of d1 is multiplied by 4/3,
\* the row of d2 is not.
C2_PositiveFirstRescaled ==
  (pc = "done" /\ PositiveThenNegative) =>
    \A r \in Range(result_df) :
      /\ r.date = df2[1].date => IsFourThirds(r)
      /\ r.date = df2[2].date => IsOriginal(r)

\* C2 amended: a positive event followed by a later negative event is no
\* pattern of the reverse scan: no interval is applied and every row, the
\* rows of d1 and d2 included, keeps its weight.
C2_PositiveFirstUntouched ==
  (pc = "done" /\ PositiveThenNegative) =>
    /\ \A r \in Range(result_df) : IsOriginal(r)
    /\ intervals = <<>>
    /\ used_dates = {}

C2_Witness ==
  /\ pc = "done"
  /\ PositiveThenNegative
  /\ i = 2

(***************************************************************************)
(* C3.  No row is multiplied twice (events of distinct dates).             *)
(***************************************************************************)
\* C3: with distinct event dates the applied intervals do not overlap and
\* every row ends with weight or weight * 4/3, never weight * (4/3)^k, k >= 2.
C3_NoCompounding ==
  DistinctDates(df2) =>
    \A r \in Range(result_df) :
      /\ Coverage(r.date) <= 1
      /\ IsOriginal(r) \/ IsFourThirds(r)

(***************************************************************************)
(* C4.  Events inside an applied interval are consumed.                    *)
(***************************************************************************)
\* C4: every event dated within the span of an applied interval (its two
\* bounding events and those between them) is marked used, and none of them
\* starts a second interval.
C4_CoveredEventsConsumed ==
  /\ \A k \in DOMAIN intervals : \A e \in Range(df2_sorted) :
       (intervals[k].earlier <= e.date /\ e.date <= intervals[k].later)
         => e.date \in used_dates
  /\ \A a, b \in DOMAIN intervals :
       a < b => ~(intervals[a].earlier <= intervals[b].later
                  /\ intervals[b].later <= intervals[a].later)

(***************************************************************************)
(* C5.  End-to-end scenario: ten daily rows of weight 10, events           *)
(* (day 3, -1) and (day 7, +1).                                            *)
(***************************************************************************)
Scenario ==
  /\ pc = "done"
  /\ Len(df1) >= 10
  /\ \A r \in Range(df1) : r.weight = 10
  /\ df2 = << [date |-> 3, ratio |-> 0 - 1], [date |-> 7, ratio |-> 1] >>

\* C5 as stated: days 1-3 keep 10, days 4-7 hold 10 * 4/3, days 8 and later
\* keep 10, and exactly one interval, from day 3 to day 7, is reported.
C5_ScenarioDays4To7 ==
  Scenario =>
    /\ \A r \in Range(result_df) :
         IF 4 <= r.date /\ r.date <= 7 THEN IsFourThirds(r) ELSE IsOriginal(r)
    /\ Len(intervals) = 1
    /\ intervals[1].earlier = 3 /\ intervals[1].later = 7

\* C5 amended: days 1-2 keep 10, days 3-6 hold 10 * 4/3 (40/3), days 7 and
\* later keep 10, and exactly one interval, [day 3, day 7), is reported.
C5_ScenarioDays3To6 ==
  Scenario =>
    /\ \A r \in Range(result_df) :
         IF 3 <= r.date /\ r.date <= 6
         THEN 3 * r.rescaled_weight.num = 40 * r.rescaled_weight.den
         ELSE r.rescaled_weight.num = 10 * r.rescaled_weight.den
    /\ Len(intervals) = 1
    /\ intervals[1].earlier = 3 /\ intervals[1].later = 7

C5_Witness ==
  /\ Scenario
  /\ Len(result_df) >= 10
  /\ used_dates = {3, 7}

(***************************************************************************)
(* C6.  Scan order and pairing rule.                                       *)
(***************************************************************************)
\* C6 as stated: the events are scanned in ascending date order and a
\* starting event of either sign is paired with the first later unused event
\* of the opposite sign, so that at the end no unused event is followed, on
\* a later date, by an unused event of the opposite sign.
C6_AscendingEitherSign ==
  /\ pc # "start" =>
       \A k \in 1..(Len(df2_sorted) - 1) : df2_sorted[k].date <= df2_sorted[k + 1].date
  /\ pc = "done" =>
       \A e, f \in Range(df2_sorted) :
         (e.date < f.date /\ e.ratio * f.ratio < 0)
           => (e.date \in used_dates \/ f.date \in used_dates)

\* C6 amended: the events are scanned in descending date order; only a
\* positive-ratio event starts a pair, and it is paired with the first unused
\* negative-ratio event after it in the scan (the nearest one on an earlier or
\* equal date); a step at an event of ratio <= 0 applies nothing.
C6_Step ==
  /\ pc' # "start" =>
       \A k \in 1..(Len(df2_sorted') - 1) :
         df2_sorted'[k].date >= df2_sorted'[k + 1].date
  /\ Len(intervals') > Len(intervals) =>
       LET iv == intervals'[Len(intervals')]
           cur == Row(df2_sorted, i)
       IN /\ InLoop
          /\ cur.ratio > 0 /\ Unused(i)
          /\ iv.later = cur.date /\ iv.positive_ratio = cur.ratio
          /\ \E j \in (i + 1)..(Len(df2_sorted) - 1) :
               /\ Unused(j) /\ Row(df2_sorted, j).ratio < 0
               /\ iv.earlier = Row(df2_sorted, j).date
               /\ iv.negative_ratio = Row(df2_sorted, j).ratio
               /\ \A k \in (i + 1)..(j - 1) :
                    ~Unused(k) \/ Row(df2_sorted, k).ratio >= 0
  /\ (InLoop /\ Row(df2_sorted, i).ratio <= 0) =>
       UNCHANGED <<result_df, intervals, used_dates>>

C6_DescendingPositiveStart == [][C6_Step]_vars

C6_Witness ==
  /\ pc = "done"
  /\ \E k \in DOMAIN intervals : \E e, f \in Range(df2_sorted) :
       /\ intervals[k].earlier < e.date /\ e.date < intervals[k].later
       /\ e.ratio >= 0
       /\ f.ratio < 0 /\ f.date \notin used_dates

(***************************************************************************)
(* C7.  Rows outside every applied interval.                               *)
(***************************************************************************)
\* C7: a row whose date no applied interval covers has
\* rescaled_weight = weight.
C7_UncoveredUnchanged ==
  \A r \in Range(result_df) : Coverage(r.date) = 0 => IsOriginal(r)

C7_Witness ==
  /\ pc = "done"
  /\ \E k \in DOMAIN intervals : \E r, q \in Range(result_df) :
       /\ r.date = intervals[k].later /\ Coverage(r.date) = 0
       /\ q.date = intervals[k].earlier /\ Coverage(q.date) > 0

(***************************************************************************)
(* C8.  Rows inside exactly one applied interval.                          *)
(***************************************************************************)
\* C8: a row whose date exactly one applied interval covers has
\* rescaled_weight = weight * 4/3.
C8_CoveredOnceFourThirds ==
  \A r \in Range(result_df) : Coverage(r.date) = 1 => IsFourThirds(r)

C8_Witness ==
  /\ pc = "done"
  /\ \E r, q \in Range(result_df) :
       /\ Coverage(r.date) = 1 /\ ~IsOriginal(r)
       /\ Coverage(q.date) = 2

(***************************************************************************)
(* C9.  Events of ratio 0.                                                 *)
(***************************************************************************)
\* C9: an event of ratio 0 neither starts an interval nor closes one, and a
\* list of zero-ratio events only leaves every weight unchanged.
C9_ZeroInert ==
  /\ \A k \in DOMAIN intervals :
       intervals[k].positive_ratio # 0 /\ intervals[k].negative_ratio # 0
  /\ (\A e \in Range(df2) : e.ratio = 0) =>
       /\ intervals = <<>>
       /\ used_dates = {}
       /\ \A r \in Range(result_df) : IsOriginal(r)

C9_Witness ==
  /\ pc = "done"
  /\ \E k \in DOMAIN intervals : \E e \in Range(df2) :
       /\ e.ratio = 0
       /\ intervals[k].earlier < e.date /\ e.date < intervals[k].later
       /\ e.date \notin used_dates

(***************************************************************************)
(* C10.  A starting event without a partner.                               *)
(***************************************************************************)
\* the scan is at an unused event of non-zero ratio and no unused event of
\* the opposite sign follows it in the scan
NoPartnerLeft ==
  /\ InLoop
  /\ Unused(i)
  /\ Row(df2_sorted, i).ratio # 0
  /\ ~\E j \in (i + 1)..(Len(df2_sorted) - 1) :
        Unused(j) /\ Row(df2_sorted, j).ratio * Row(df2_sorted, i).ratio < 0

\* C10: at a starting event that has no unused partner of the opposite sign
\* the step rescales no row, marks no date, reports nothing, raises nothing
\* and moves the scan to the next event.
C10_UnpairedLeftAlone ==
  [][NoPartnerLeft =>
       /\ i' = i + 1
       /\ pc' = "scan"
       /\ UNCHANGED <<result_df, used_dates, intervals, df2_sorted>>]_vars

C10_Witness ==
  /\ pc = "done"
  /\ intervals # <<>>
  /\ \E e, f \in Range(df2) :
       /\ e.ratio > 0 /\ e.date \notin used_dates
       /\ f.ratio < 0 /\ f.date < e.date /\ f.date \in used_dates

(***************************************************************************)
(* C11.  Termination, and nothing pairable is left.                        *)
(***************************************************************************)
\* no unused positive event (the only kind that starts a pair) is followed
\* in the scan by an unused negative event
NoPairableLeft ==
  \A a \in 0..(Len(df2_sorted) - 1) :
    (Unused(a) /\ Row(df2_sorted, a).ratio > 0) =>
      ~\E b \in (a + 1)..(Len(df2_sorted) - 1) :
         Unused(b) /\ Row(df2_sorted, b).ratio < 0

\* C11: the call returns for every event list, and when it has returned no
\* unused starting event still has an unused event of the opposite sign on
\* the side it searches.
C11_TerminatesExhausted ==
  /\ <>(pc = "done")
  /\ [](pc = "done" => (i = Len(df2_sorted) /\ NoPairableLeft))

C11_Witness ==
  /\ pc = "done"
  /\ intervals # <<>>
  /\ \E a, b \in 0..(Len(df2_sorted) - 1) :
       /\ Unused(a) /\ Row(df2_sorted, a).ratio > 0
       /\ Unused(b) /\ Row(df2_sorted, b).ratio < 0

(***************************************************************************)
(* C12.  The inputs are not modified.                                      *)
(***************************************************************************)
\* C12: no step changes the caller's df1 or df2, and the returned series
\* has the rows of df1 with their dates and weights.
C12_InputsUntouched ==
  [][/\ df1' = df1
     /\ df2' = df2
     /\ pc' # "start" =>
          /\ Len(result_df') = Len(df1)
          /\ \A k \in DOMAIN df1 :
               /\ result_df'[k].date = df1[k].date
               /\ result_df'[k].weight = df1[k].weight]_vars

C12_Witness ==
  /\ pc = "done"
  /\ df2_sorted # df2
  /\ \E r \in Range(result_df) : ~IsOriginal(r)

(***************************************************************************)
(* C13.  Leverage at a zero or undefined realized_vol.                     *)
(***************************************************************************)
IsPositive(x) == x.kind = "num" /\ x.val.num > 0

\* C13: when the realized_vol a row refers to is zero, negative or
\* undefined, the call raises UndefinedVolatility and holds no leverage value
\* for that row.
C13_UndefinedVolatilityRaised ==
  /\ ADone =>
       \A t \in DOMAIN realized_vol :
         ~IsPositive(realized_vol[t]) =>
           /\ error = "UndefinedVolatility"
           /\ leverage_factor[t].kind # "num"
  /\ PyDone =>
       \A t \in DOMAIN realized_vol :
         (t - lev_args.lag_days >= 1
            /\ ~IsPositive(realized_vol[t - lev_args.lag_days])) =>
           /\ error = "UndefinedVolatility"
           /\ leveraged_weight[t].kind # "num"

(***************************************************************************)
(* C14.  The leverage cap.                                                 *)
(***************************************************************************)
\* C14: leverage_factor[t] <= max_leverage at every row; it equals
\* max_leverage exactly when target_vol / realized_vol[t] >= max_leverage (a
\* zero realized_vol gives +inf, which is above every cap) and equals
\* target_vol / realized_vol[t] otherwise.
C14_LeverageCap ==
  ADone =>
    /\ Len(leverage_factor) = Len(realized_vol)
    /\ \A t \in DOMAIN realized_vol :
         LET f == leverage_factor[t]
             v == realized_vol[t].val
             reaches == RLeq(RMul(lev_args.max_leverage, v), lev_args.target_volatility)
         IN /\ f.kind = "num"
            /\ RLeq(f.val, lev_args.max_leverage)
            /\ (f.val = lev_args.max_leverage) <=> reaches
            /\ ~reaches => RMul(f.val, v) = lev_args.target_volatility

C14_Witness ==
  /\ ADone
  /\ \E t, u, w \in DOMAIN realized_vol :
       /\ RLess(leverage_factor[t].val, lev_args.max_leverage)
       /\ realized_vol[u].val # Zero
       /\ RLess(RMul(lev_args.max_leverage, realized_vol[u].val),
                lev_args.target_volatility)
       /\ realized_vol[w].val # Zero
       /\ RMul(lev_args.max_leverage, realized_vol[w].val) = lev_args.target_volatility

(***************************************************************************)
(* C15.  The lag of the applied leverage (src/a.py).                       *)
(***************************************************************************)
\* rows are counted from 0 as in the claim: row t is position t + 1
LagScenario ==
  /\ ADone
  /\ lev_args = [target_volatility |-> Rat(11, 200), max_leverage |-> One,
                 lag_days |-> 2]
  /\ \A t \in DOMAIN realized_vol : realized_vol[t] = Num(Rat(1, 10))

LaggedFactor ==
  \A t \in DOMAIN applied_leverage :
    t - 1 >= lev_args.lag_days =>
      applied_leverage[t] = leverage_factor[t - lev_args.lag_days]

\* C15 as stated: applied_leverage[t] = leverage_factor[t - lag_days] for
\* t >= lag_days, and applied_leverage[t] is the fallback value (1.0) for
\* every row t < lag_days and for no other row.
C15_FallbackOnlyBeforeLag ==
  ADone =>
    /\ LaggedFactor
    /\ \A t \in DOMAIN applied_leverage :
         (applied_leverage[t] = Num(One)) <=> (t - 1 < lev_args.lag_days)

\* C15 amended: applied_leverage[t] = leverage_factor[t - lag_days] for
\* t >= lag_days and applied_leverage[t] = 1.0 (the fallback of src/a.py) for
\* t < lag_days; a later row holds 1.0 too whenever the factor it takes over
\* is 1.0.  In the scenario (realized_vol 0.10, target 0.055, cap 1.0, lag 2)
\* applied_leverage[t] = 0.55 for all t >= 2.
C15_LagAndFallback ==
  ADone =>
    /\ Len(applied_leverage) = Len(realized_vol)
    /\ LaggedFactor
    /\ \A t \in DOMAIN applied_leverage :
         t - 1 < lev_args.lag_days => applied_leverage[t] = Num(One)
    /\ LagScenario =>
         \A t \in DOMAIN applied_leverage :
           t - 1 >= 2 => applied_leverage[t] = Num(Rat(11, 20))

C15_Witness ==
  /\ LagScenario
  /\ Len(applied_leverage) >= 4
  /\ applied_leverage[1] = Num(One)
  /\ applied_leverage[4] = Num(Rat(11, 20))

(***************************************************************************)
(* The volatility engine.                                                  *)
(***************************************************************************)
VolDone == vpc = "done"

\* C16: on every output date realized_vol is at least short_term_vol and at
\* least long_term_vol, and it equals one of the two.
C16_RealizedIsMax ==
  \A k \in DOMAIN vol_df :
    /\ RLeq(vol_df[k].short_term_vol.sqrt_of, vol_df[k].realized_vol.sqrt_of)
    /\ RLeq(vol_df[k].long_term_vol.sqrt_of, vol_df[k].realized_vol.sqrt_of)
    /\ vol_df[k].realized_vol \in {vol_df[k].short_term_vol, vol_df[k].long_term_vol}

\* a table where the short horizon leads on one date and the long on another
C16_Witness ==
  /\ VolDone
  /\ \E k \in DOMAIN vol_df :
       RLess(vol_df[k].long_term_vol.sqrt_of, vol_df[k].short_term_vol.sqrt_of)
  /\ \E k \in DOMAIN vol_df :
       RLess(vol_df[k].short_term_vol.sqrt_of, vol_df[k].long_term_vol.sqrt_of)

\* the return at position k (from 1) of the sub-series that starts at T0
ReturnFromT0(k) == returns[T0_idx + k].ret

Recurrence(var, seed, lambda_val) ==
  /\ Len(var) = Len(returns) - T0_idx
  /\ var[1] = seed
  /\ \A k \in 2..Len(var) :
       IF IsNaN(ReturnFromT0(k))
       THEN var[k] = var[k - 1]
       ELSE var[k] = RAdd(RMul(lambda_val, var[k - 1]),
                          RMul(RSub(One, lambda_val),
                               RMul(ReturnFromT0(k).val, ReturnFromT0(k).val)))

\* C17: the variance at the seed date is the seed variance; at each later
\* position t it is lambda*var[t-1] + (1-lambda)*return[t]^2 when return[t]
\* is defined and var[t-1] when return[t] is missing.
C17_EwmaRecurrence ==
  (VolDone /\ returns # <<>>) =>
    /\ Recurrence(variance.s, initial_var.s, calc.lambda_s)
    /\ Recurrence(variance.l, initial_var.l, calc.lambda_l)

\* a run that carries a non-zero variance over a missing return and updates
\* on a defined one
C17_Witness ==
  /\ VolDone
  /\ \E k \in 2..Len(variance.s) :
       /\ IsNaN(ReturnFromT0(k))
       /\ variance.s[k - 1] # Zero
  /\ \E k \in 2..Len(variance.s) :
       /\ ~IsNaN(ReturnFromT0(k))
       /\ variance.s[k] # variance.s[k - 1]

FourConditions(args) ==
  /\ RLess(Zero, args.lambda_s) /\ RLess(args.lambda_s, One)
  /\ RLess(Zero, args.lambda_l) /\ RLess(args.lambda_l, One)
  /\ args.n >= 1
  /\ args.N >= 1

ConstructionAttempted == vpc # "new"
ConstructionRaised == vpc = "raised" /\ error = "ValueError"

DateInSeries(series, d) == \E k \in DOMAIN series : series[k].date = d

\* C19: a call with an explicit T0_date that is not a date of the return
\* series fails with an error and returns no volatility records.
C19_AbsentT0Fails ==
  (vpc \in {"done", "raised"} /\ ~ConstructionRaised
     /\ T0_date # 0 /\ ~DateInSeries(returns, T0_date))
    => (vpc = "raised" /\ error = "KeyError" /\ vol_df = <<>>)

\* a call on a non-empty series with a date outside it
C19_Witness ==
  /\ error = "KeyError"
  /\ returns # <<>>
  /\ T0_date # 0
  /\ ~DateInSeries(returns, T0_date)

SquaredReturns(hist) ==
  { RMul(hist[j].ret.val, hist[j].ret.val) : j \in DOMAIN hist }

ConvexCombination(seed, weights, hist) ==
  /\ Len(weights) = Len(hist)
  /\ RSum(weights) = One
  /\ \A j \in DOMAIN weights : RLess(Zero, weights[j])
  /\ seed = RSum([j \in DOMAIN hist |->
                    RMul(weights[j], RMul(hist[j].ret.val, hist[j].ret.val))])
  /\ \E lo \in SquaredReturns(hist) : RLeq(lo, seed)
  /\ \E hi \in SquaredReturns(hist) : RLeq(seed, hi)

\* C20: whenever at least one historical return is available the normalized
\* weights sum to 1, and the seed variance is a convex combination of the
\* squared returns of the window.
C20_SeedWeightsSumToOne ==
  (VolDone /\ Len(initial_var.historical_returns) >= 1) =>
    /\ ConvexCombination(initial_var.s, initial_var.weights_s,
                         initial_var.historical_returns)
    /\ ConvexCombination(initial_var.l, initial_var.weights_l,
                         initial_var.historical_returns)

\* a window of several unequal returns, the seed strictly between them
C20_Witness ==
  /\ VolDone
  /\ Len(initial_var.historical_returns) >= 2
  /\ \E lo \in SquaredReturns(initial_var.historical_returns) :
       RLess(lo, initial_var.s)
  /\ \E hi \in SquaredReturns(initial_var.historical_returns) :
       RLess(initial_var.s, hi)
  /\ RSum(initial_var.weights_s) = One

\* positions (from 1) of the seed window: the N up to and including T0
SeedWindow ==
  { p \in DOMAIN returns :
      /\ p <= T0_idx + 1
      /\ p >= T0_idx + 1 - calc.N + 1 }

DefinedInWindow == { p \in SeedWindow : ~IsNaN(returns[p].ret) }

\* C21: the seed uses exactly the defined returns at positions
\* max(0, T0-N+1) .. T0, in order, gives the one closest to T0 the largest
\* weight, and is 0.0 when the window holds no defined return.
C21_SeedWindow ==
  VolDone =>
    LET hist == initial_var.historical_returns IN
      /\ Len(hist) = Cardinality(DefinedInWindow)
      /\ { hist[j] : j \in DOMAIN hist } = { returns[p] : p \in DefinedInWindow }
      /\ \A j \in DOMAIN hist : j > 1 => hist[j - 1].date < hist[j].date
      /\ \A j \in DOMAIN hist :
           j < Len(hist) =>
             /\ RLess(initial_var.weights_s[j], initial_var.weights_s[Len(hist)])
             /\ RLess(initial_var.weights_l[j], initial_var.weights_l[Len(hist)])
      /\ DefinedInWindow = {} => (initial_var.s = Zero /\ initial_var.l = Zero)

\* a window that holds two defined returns and does not reach back to the
\* start of the series
C21_Witness ==
  /\ VolDone
  /\ Len(initial_var.historical_returns) >= 2
  /\ T0_idx - calc.N + 1 > 0
  /\ initial_var.s # Zero

\* positions (from 1) of the returns from the start index to the end
FromStart == { p \in DOMAIN returns : p - 1 >= T0_idx }

\* C23: without an explicit T0_date the start index is min(N, length - 1),
\* and the output holds one record per return date from that index to the
\* end, in date order.
C23_DefaultStart ==
  (VolDone /\ T0_date = 0) =>
    /\ T0_idx = (IF calc.N <= Len(returns) - 1 THEN calc.N ELSE Len(returns) - 1)
    /\ Len(vol_df) = Cardinality(FromStart)
    /\ \A k \in DOMAIN vol_df : vol_df[k].date = returns[T0_idx + k].date
    /\ \A k \in DOMAIN vol_df : k > 1 => vol_df[k - 1].date < vol_df[k].date

\* a default start at N with several records after it
C23_Witness ==
  /\ VolDone
  /\ T0_date = 0
  /\ T0_idx = calc.N
  /\ calc.N < Len(returns) - 1
  /\ Len(vol_df) >= 2

NonNegative(x) == RLeq(Zero, x)

\* C25: the seed variances and every EWMA variance are >= 0, and so are
\* short_term_vol and long_term_vol at every output date.
C25_NonNegative ==
  VolDone =>
    /\ NonNegative(initial_var.s)
    /\ NonNegative(initial_var.l)
    /\ \A k \in DOMAIN variance.s : NonNegative(variance.s[k])
    /\ \A k \in DOMAIN variance.l : NonNegative(variance.l[k])
    /\ \A k \in DOMAIN vol_df :
         /\ NonNegative(vol_df[k].short_term_vol.sqrt_of)
         /\ NonNegative(vol_df[k].long_term_vol.sqrt_of)

\* a run from a zero seed that updates on a non-zero return and then carries
\* the positive variance over a missing one
C25_Witness ==
  /\ VolDone
  /\ initial_var.l = Zero
  /\ \E k \in 2..Len(variance.l) :
       /\ ~IsNaN(ReturnFromT0(k))
       /\ RLess(Zero, variance.l[k])
       /\ RLess(Zero, vol_df[k].long_term_vol.sqrt_of)
  /\ \E k \in 2..Len(variance.l) : IsNaN(ReturnFromT0(k))

(***************************************************************************)
(* The two leverage variants side by side.                                 *)
(***************************************************************************)
BothDone == lpc = "done"

\* C30: on the same realized_vol, target, max_leverage and lag_days,
\* leveraged_weight[t] of src/.py equals applied_leverage[t] of src/a.py at
\* every row t >= lag_days; on the rows t < lag_days the first holds
\* max_leverage and the second 1.0, so they differ there at most.
C30_VariantsAgreeAfterLag ==
  BothDone =>
    /\ Len(leveraged_weight) = Len(applied_leverage)
    /\ \A t \in DOMAIN leveraged_weight :
         /\ t - 1 >= lev_args.lag_days => leveraged_weight[t] = applied_leverage[t]
         /\ t - 1 < lev_args.lag_days =>
              /\ leveraged_weight[t] = Num(lev_args.max_leverage)
              /\ applied_leverage[t] = Num(One)

\* a run where the variants differ before the lag and agree after it on a
\* value below the cap, with the volatility changing from row to row
C30_Witness ==
  /\ BothDone
  /\ lev_args.lag_days >= 1
  /\ Len(realized_vol) >= lev_args.lag_days + 2
  /\ leveraged_weight[1] # applied_leverage[1]
  /\ \E t \in DOMAIN realized_vol :
       /\ t - 1 > lev_args.lag_days
       /\ realized_vol[t] # realized_vol[t - lev_args.lag_days]
       /\ realized_vol[t - lev_args.lag_days] # realized_vol[t - lev_args.lag_days - 1]
       /\ leveraged_weight[t] = applied_leverage[t]
       /\ RLess(leveraged_weight[t].val, lev_args.max_leverage)

(***************************************************************************)
(* C27.  The reverse scan, on the dates of create_test_data.               *)
(***************************************************************************)
SampleEvents ==
  df2 = [k \in DOMAIN SampleDates |->
           [date |-> SampleDates[k], ratio |-> SampleRatios[k]]]

\* the rows of df between the two dates, the earlier one included, are
\* multiplied by 4/3 and no other row changes
RescaledExactly(before, after, earlier_date, later_date) ==
  /\ Len(after) = Len(before)
  /\ \A k \in DOMAIN before :
       /\ after[k].date = before[k].date
       /\ after[k].weight = before[k].weight
       /\ IF earlier_date <= before[k].date /\ before[k].date < later_date
          THEN 3 * after[k].rescaled_weight.num * before[k].rescaled_weight.den
                 = 4 * before[k].rescaled_weight.num * after[k].rescaled_weight.den
          ELSE after[k].rescaled_weight = before[k].rescaled_weight

C27_Step ==
  /\ pc' # "start" =>
       \A k \in 1..(Len(df2_sorted') - 1) :
         df2_sorted'[k].date > df2_sorted'[k + 1].date
  /\ InLoop => i' = i + 1
  /\ (InLoop /\ Row(df2_sorted, i).ratio < 0) =>
       UNCHANGED <<result_df, intervals, used_dates>>
  /\ IF Len(intervals') > Len(intervals)
     THEN LET iv == intervals'[Len(intervals')]
              cur == Row(df2_sorted, i)
          IN /\ cur.ratio > 0
             /\ iv.later = cur.date
             /\ iv.earlier < iv.later
             /\ \E e \in Range(df2_sorted) :
                  /\ e.date = iv.earlier /\ e.ratio < 0 /\ e.date \notin used_dates
                  /\ \A f \in Range(df2_sorted) :
                       (iv.earlier < f.date /\ f.date < iv.later) =>
                         (f.ratio >= 0 \/ f.date \in used_dates)
             /\ RescaledExactly(result_df, result_df', iv.earlier, iv.later)
     ELSE pc # "start" => result_df' = result_df
  /\ (pc' = "done" /\ SampleEvents) =>
       /\ Len(intervals') = 2
       /\ intervals'[1].later = 16 /\ intervals'[1].earlier = 12
       /\ intervals'[2].later = 7 /\ intervals'[2].earlier = 3
       /\ 18 \notin used_dates'

\* C27: the events are scanned from the latest to the earliest; an interval
\* starts only at a positive event, which is paired with the nearest earlier
\* unused negative event, and exactly the rows with
\* negative_date <= date < positive_date are rescaled; a negative event
\* starts nothing.  On the events of create_test_data the pairs are day 16
\* with day 12, then day 7 with day 3, and day 18 stays unpaired.
C27_ReverseScanPairs == [][C27_Step]_vars

C27_Witness ==
  /\ pc = "done"
  /\ SampleEvents
  /\ Len(intervals) = 2
  /\ used_dates = {3, 7, 12, 16}
  /\ \E r \in Range(result_df) : r.date = 12 /\ IsFourThirds(r)
  /\ \E r \in Range(result_df) : r.date = 16 /\ IsOriginal(r)

(***************************************************************************)
(* C28.  The weight of a row after any number of applied intervals.        *)
(***************************************************************************)
RECURSIVE Power(_, _)
Power(b, k) == IF k = 0 THEN 1 ELSE b * Power(b, k - 1)

\* rescaled_weight = weight * (4/3)^k
IsFourThirdsPower(r, k) ==
  r.rescaled_weight.num * Power(3, k) = r.weight * Power(4, k) * r.rescaled_weight.den

\* C28: every row holds rescaled_weight = weight * (4/3)^k, k the number of
\* applied intervals [negative_date, positive_date) that contain its date.
C28_PowerOfFourThirds ==
  pc # "start" =>
    \A r \in Range(result_df) : IsFourThirdsPower(r, Coverage(r.date))

\* a finished call with a row in no interval, one in a single interval and
\* one in two overlapping intervals
C28_Witness ==
  /\ pc = "done"
  /\ \E r \in Range(result_df) : Coverage(r.date) = 0
  /\ \E r \in Range(result_df) : Coverage(r.date) = 1
  /\ \E r \in Range(result_df) :
       /\ Coverage(r.date) = 2
       /\ 9 * r.rescaled_weight.num = 16 * r.weight * r.rescaled_weight.den

(***************************************************************************)
(* C29.  Events of distinct dates are endpoints at most once.              *)
(***************************************************************************)
EndpointCount(d) ==
  Cardinality({ k \in DOMAIN intervals : intervals[k].earlier = d })
    + Cardinality({ k \in DOMAIN intervals : intervals[k].later = d })

C29_Step ==
  DistinctDates(df2) =>
    /\ \A d \in 1..NumDays : EndpointCount(d)' <= 1
    /\ \A k \in DOMAIN intervals' : intervals'[k].earlier < intervals'[k].later
    /\ \A k \in DOMAIN intervals' :
         {intervals'[k].earlier, intervals'[k].later} \subseteq used_dates'
    /\ used_dates \subseteq used_dates'
    /\ Len(intervals') > Len(intervals) =>
         LET iv == intervals'[Len(intervals')]
         IN iv.earlier \notin used_dates /\ iv.later \notin used_dates

\* C29: with distinct event dates every event is an endpoint of at most one
\* applied interval: a date in used_dates is never again the starting
\* positive event nor the matching negative event, and every applied
\* interval has its negative endpoint strictly earlier than its positive one.
C29_EndpointsOnce == [][C29_Step]_vars

\* two intervals applied on four distinct dates, the used inner events passed
C29_Witness ==
  /\ pc = "done"
  /\ DistinctDates(df2)
  /\ Len(intervals) = 2
  /\ Cardinality(used_dates) = 4
  /\ intervals[2].earlier < intervals[1].earlier
  /\ intervals[1].earlier < intervals[2].later

(***************************************************************************)
(* The return series.                                                      *)
(***************************************************************************)
RetDone == rpc = "done"

WeightBased ==
  RetDone /\ ret_mode \in {"weighted", "normalized_price", "individual_log"}

\* the dates of the history in date order; index t is position t + 1
HistoryDates == SortedSeq({ r.date : r \in Range(history) })

\* the non-cash rows of the period that index t looks back to
PreviousNonCash(t) ==
  { r \in Range(history) :
      r.date = HistoryDates[t - ret_lag + 1] /\ r.symbol # "USD.CASH" }

RECURSIVE SumOfWeights(_)
SumOfWeights(S) ==
  IF S = {} THEN 0
  ELSE LET r == CHOOSE x \in S : TRUE IN r.weight + SumOfWeights(S \ {r})

RECURSIVE SumOfWeightedPrices(_)
SumOfWeightedPrices(S) ==
  IF S = {} THEN 0
  ELSE LET r == CHOOSE x \in S : TRUE
       IN r.weight * r.price_per_share + SumOfWeightedPrices(S \ {r})

PreviousWeightSum(t) == SumOfWeights(PreviousNonCash(t))
PreviousWeightedPrice(t) == SumOfWeightedPrices(PreviousNonCash(t))

ReturnsOn(d) ==
  Cardinality({ k \in DOMAIN returns_series : returns_series[k].date = d })

\* C22 as stated: a date at index t >= lag gets no return when the non-cash
\* weights of index t - lag sum to zero and exactly one return otherwise; a
\* date at index < lag gets none.
C22_SkippedOnlyOnZeroWeight ==
  WeightBased =>
    \A t \in 0..(Len(HistoryDates) - 1) :
      ReturnsOn(HistoryDates[t + 1]) =
        (IF t < ret_lag THEN 0
         ELSE IF PreviousWeightSum(t) = 0 THEN 0
         ELSE 1)

\* C22 amended: a date at index t >= lag gets no return when the non-cash
\* weights of index t - lag do not sum to more than zero (no non-cash row, a
\* zero or a negative sum) and, in calculate_normalized_price_returns, when
\* the weighted price of index t - lag is not positive; every other date at
\* index t >= lag gets exactly one return, and no date at index < lag gets
\* one.
C22_SkippedUnlessPositive ==
  WeightBased =>
    \A t \in 0..(Len(HistoryDates) - 1) :
      ReturnsOn(HistoryDates[t + 1]) =
        (IF t < ret_lag THEN 0
         ELSE IF PreviousWeightSum(t) <= 0 THEN 0
         ELSE IF ret_mode = "normalized_price" /\ PreviousWeightedPrice(t) <= 0 THEN 0
         ELSE 1)

\* a series with a date passed over for a negative weight sum and a date
\* that got its return
C22_Witness ==
  /\ WeightBased
  /\ \E t \in 0..(Len(HistoryDates) - 1) :
       /\ t >= ret_lag
       /\ PreviousWeightSum(t) < 0
       /\ ReturnsOn(HistoryDates[t + 1]) = 0
  /\ \E t \in 0..(Len(HistoryDates) - 1) : ReturnsOn(HistoryDates[t + 1]) = 1

\* C24: the dates of every return series are strictly increasing (so no
\* date occurs twice), whatever the order of the input rows and the number
\* of symbols per date.
C24_DatesStrictlyIncreasing ==
  RetDone =>
    \A k \in 1..(Len(returns_series) - 1) :
      returns_series[k].date < returns_series[k + 1].date

\* a series of several dates from rows out of date order, two of them of
\* the same date
C24_Witness ==
  /\ RetDone
  /\ Len(returns_series) >= 2
  /\ \E k \in 1..(Len(history) - 1) : history[k].date > history[k + 1].date
  /\ \E j, k \in DOMAIN history : j # k /\ history[j].date = history[k].date

=============================================================================
